---- MODULE Spec2Model ----
(***************************************************************************)
(* mapio_gpio_ha: the bridge between the MAPIO board's peripherals (relay, *)
(* RGB led, PMIC battery telemetry, Linky teleinfo serial feed) and Home   *)
(* Assistant over MQTT.                                                    *)
(*                                                                         *)
(* Three execution contexts are modelled:                                  *)
(*   - the main thread of cli.app (construction, poll loop, shutdown);     *)
(*   - the MQTT client's network thread (client.loop_start), on which the  *)
(*     switch callbacks on()/off() run, one at a time;                     *)
(*   - the teleinfo thread running MAPIO_GPIO.read_teleinfo.               *)
(* Text is modelled as sequences of one-character strings, a raw serial    *)
(* record as a sequence of one-character strings (ASCII bytes) and "xFF"   *)
(* (the byte 0xFF, which no UTF-8 text contains).                          *)
(***************************************************************************)
EXTENDS Integers, Sequences, FiniteSets, TLC

VARIABLES
    mainPc,        \* position of the main thread in cli.app / close_mapio_gpio_to_ha
    mainExc,       \* exception propagating out of the main thread ("none" if none)
    enable_linky,  \* cli.py:58-61, presence of the enable_linky marker file
    lineState,     \* relay1_ctrl: "free" | "requested" | "released"
    level,         \* physical level of every switch binding (gpio line, led files)
    phys,          \* per switch: the values physically written to its binding
    reqs,          \* per switch: the commands ("on" / "off") dispatched so far
    ann,           \* per switch: the states announced by entity.set_on/set_off
    cb,            \* the callback in progress on the MQTT network thread
    loop,          \* MQTT network thread: "none" | "running" | "crashed" | "stopped"
    connected,     \* MQTT client connected to the broker
    registered,    \* the entities constructed by expose_mapio_gpio_to_ha, in order
    closed,        \* per entity: number of close() calls made on it
    calls,         \* counters of calls: set_value, release, close, loop_stop, ...
    ups,           \* last percentage published to the battery sensor (-1: none)
    tick,          \* the last poll tick: its outcome, the chip model read and
                   \* the register value parsed
    linky,         \* per measure: last value published by the teleinfo thread
    readerPc,      \* teleinfo thread: "none" | "open" | "reading" | "dead" | "stopped"
    serialOpen,    \* serial handle held by read_teleinfo
    lastLine,      \* last raw record read from the serial port
    lastPubs,      \* publishes made while handling lastLine, in order
    late           \* publishes made to an entity that was already closed

vars == <<mainPc, mainExc, enable_linky, lineState, level, phys, reqs, ann, cb,
          loop, connected, registered, closed, calls, ups, tick, linky,
          readerPc, serialOpen, lastLine, lastPubs, late>>

mainVars   == <<mainPc, mainExc>>
switchVars == <<level, phys, reqs, ann, cb>>
readerVars == <<linky, readerPc, serialOpen, lastLine, lastPubs>>

----------------------------------------------------------------------------
(* Bounds of the model *)

MaxEvents == 2   \* inputs in a run: commands delivered, poll ticks, serial records
MaxClose  == 2   \* calls of close_mapio_gpio_to_ha (library-level driver only)

----------------------------------------------------------------------------
(* Static tables of app.py *)

Switches == {"RELAY1", "LED_R", "LED_G", "LED_B"}

HA_LINKY_MEASURES ==
    << [unit |-> "W",  state_class |-> "measurement",
        exposed_variable |-> "apparent_power"],
       [unit |-> "Wh", state_class |-> "total_increasing",
        exposed_variable |-> "current_summ_delivered"],
       [unit |-> "Wh", state_class |-> "total_increasing",
        exposed_variable |-> "current_tier1_summ_delivered"],
       [unit |-> "Wh", state_class |-> "total_increasing",
        exposed_variable |-> "current_tier2_summ_delivered"] >>

Measures == {HA_LINKY_MEASURES[i].exposed_variable : i \in DOMAIN HA_LINKY_MEASURES}

LINKY_REGISTERS ==
    << [name |-> <<"B","A","S","E">>,
        exposed_variable |-> "current_summ_delivered"],
       [name |-> <<"P","A","P","P">>,
        exposed_variable |-> "apparent_power"],
       [name |-> <<"S","I","N","S","T","S">>,
        exposed_variable |-> "apparent_power"],
       [name |-> <<"S","I","N","S","T","S","1">>,
        exposed_variable |-> "apparent_power"],
       [name |-> <<"H","C","H","C">>,
        exposed_variable |-> "current_tier1_summ_delivered"],
       [name |-> <<"E","A","S","F","0","1">>,
        exposed_variable |-> "current_tier1_summ_delivered"],
       [name |-> <<"E","J","P","H","N">>,
        exposed_variable |-> "current_tier1_summ_delivered"],
       [name |-> <<"B","B","R","H","C","J","B">>,
        exposed_variable |-> "current_tier1_summ_delivered"],
       [name |-> <<"H","C","H","P">>,
        exposed_variable |-> "current_tier2_summ_delivered"],
       [name |-> <<"E","A","S","F","0","2">>,
        exposed_variable |-> "current_tier2_summ_delivered"],
       [name |-> <<"E","J","P","H","P","M">>,
        exposed_variable |-> "current_tier2_summ_delivered"],
       [name |-> <<"B","B","R","H","P","J","B">>,
        exposed_variable |-> "current_tier2_summ_delivered"] >>

Entities == Switches \cup {"ups"} \cup Measures

----------------------------------------------------------------------------
(* Text helpers: the str methods used by app.py *)

Whitespace == {" ", "\t", "\n", "\r"}

RECURSIVE lstrip(_)
lstrip(s) == IF s # <<>> /\ Head(s) \in Whitespace THEN lstrip(Tail(s)) ELSE s

RECURSIVE rstrip(_)
rstrip(s) ==
    IF s # <<>> /\ s[Len(s)] \in Whitespace
    THEN rstrip(SubSeq(s, 1, Len(s) - 1)) ELSE s

\* str.strip()
strip(s) == rstrip(lstrip(s))

\* str.startswith(prefix)
startswith(s, prefix) ==
    Len(prefix) <= Len(s) /\ SubSeq(s, 1, Len(prefix)) = prefix

\* str.split(sep) for a one-character separator: every separator cuts, so
\* consecutive separators give empty fields
RECURSIVE split(_, _)
split(s, sep) ==
    IF \A i \in DOMAIN s : s[i] # sep
    THEN << s >>
    ELSE LET k == CHOOSE i \in DOMAIN s :
                      s[i] = sep /\ \A j \in 1..(i - 1) : s[j] # sep
         IN  << SubSeq(s, 1, k - 1) >> \o split(SubSeq(s, k + 1, Len(s)), sep)

\* bytes.decode("utf-8"): <<FALSE, <<>>>> stands for UnicodeDecodeError
decode(raw) ==
    IF \E i \in DOMAIN raw : raw[i] = "xFF"
    THEN << FALSE, <<>> >>
    ELSE << TRUE, raw >>

----------------------------------------------------------------------------
(* read_teleinfo: what one record does (app.py:283-293) *)

\* the for loop of app.py:285-291 from register i on; pubs are the publishes
\* made so far, exc the exception that leaves the loop
RECURSIVE scan_registers(_, _, _)
scan_registers(line, i, pubs) ==
    IF i > Len(LINKY_REGISTERS)
    THEN [pubs |-> pubs, exc |-> "none"]
    ELSE LET register == LINKY_REGISTERS[i]
             fields   == split(line, " ")
         IN  IF startswith(line, register.name)
             THEN IF Len(fields) < 2
                  THEN [pubs |-> pubs, exc |-> "IndexError"]
                  ELSE scan_registers(line, i + 1,
                           Append(pubs, << register.exposed_variable, fields[2] >>))
             ELSE scan_registers(line, i + 1, pubs)

\* one iteration of the while loop of app.py:281-293
handle_record(raw) ==
    LET d == decode(raw)
    IN  IF ~d[1]
        THEN [pubs |-> <<>>, exc |-> "UnicodeDecodeError"]
        ELSE scan_registers(strip(d[2]), 1, <<>>)

----------------------------------------------------------------------------
(* refresh_mapio_gpio_to_ha: what one poll tick computes (app.py:245-264) *)

HexChars == <<"0","1","2","3","4","5","6","7","8","9","a","b","c","d","e","f">>
HexUpper == <<"0","1","2","3","4","5","6","7","8","9","A","B","C","D","E","F">>

IsHex(c) == \E i \in 1..16 : HexChars[i] = c \/ HexUpper[i] = c
HexVal(c) == (CHOOSE i \in 1..16 : HexChars[i] = c \/ HexUpper[i] = c) - 1

RECURSIVE HexNum(_)
HexNum(s) == IF s = <<>> THEN 0
             ELSE 16 * HexNum(SubSeq(s, 1, Len(s) - 1)) + HexVal(s[Len(s)])

\* int(text, 16) for unsigned text: surrounding whitespace and a 0x prefix are
\* accepted; -1 stands for ValueError
int16(text) ==
    LET t == strip(text)
        digits == IF Len(t) >= 2 /\ t[1] = "0" /\ t[2] \in {"x", "X"}
                  THEN SubSeq(t, 3, Len(t)) ELSE t
    IN  IF digits # <<>> /\ \A i \in DOMAIN digits : IsHex(digits[i])
        THEN HexNum(digits) ELSE -1

\* app.py:246-255: the variant's multiplier
scale(model) == IF strip(model) = <<"a", "0">> THEN 2 ELSE 4

\* the thresholds compared with >= instead of >
percent_of_inclusive(k) ==
    IF 4 * k >= 1600 THEN 100
    ELSE IF 4 * k >= 1500 THEN 75
    ELSE IF 4 * k >= 1400 THEN 50
    ELSE IF 4 * k >= 1300 THEN 25
    ELSE 0

\* app.py:256-264 on int_value = k / 100 (k an integer): the comparisons with
\* 4, 3.75, 3.5 and 3.25 are comparisons of 4k with 1600, 1500, 1400, 1300
percent_of(k) ==
    IF 4 * k > 1600 THEN 100
    ELSE IF 4 * k > 1500 THEN 75
    ELSE IF 4 * k > 1400 THEN 50
    ELSE IF 4 * k > 1300 THEN 25
    ELSE 0

\* the tick's result: the percentage published, or the exception raised
sample(model, output) ==
    LET n == int16(output)
    IN  IF n < 0
        THEN [exc |-> "ValueError", n |-> n, percent |-> -1]
        ELSE [exc |-> "none", n |-> n, percent |-> percent_of(scale(model) * n)]

----------------------------------------------------------------------------
(* Inputs from the environment *)

\* outputs of "vcgencmd pmicrd 0 | awk '{print $3}'": the MXL7704 answers a0;
\* an empty output is what os.popen reads when the probe cannot be invoked
ModelOutputs == { <<"a","0","\n">>, <<"0","c","\n">>, <<>> }

\* outputs of the AIN0 register read: values around the thresholds, an empty
\* output and a labelled one
ProbeOutputs ==
    { <<"1","a","\n">>, <<"5","2","\n">>, <<"5","e","\n">>, <<"a","f","\n">>,
      <<"b","0","\n">>, <<"c","8","\n">>, <<"c","9","\n">>,
      <<>>, <<"v","o","l","t","=","1","a","\n">> }

\* every two-digit register value, for the poll loop checked on its own
AllProbeOutputs ==
    { << HexChars[i], HexChars[j], "\n" >> : i, j \in 1..16 } \cup ProbeOutputs

\* records returned by serial_port.readline()
RawRecords ==
    { <<"B","A","S","E"," ","1","2","\n">>,
      <<"B","A","S","E","X"," ","5","\n">>,
      <<"S","I","N","S","T","S"," ","7","\n">>,
      <<"S","I","N","S","T","S","1"," ","8","\n">>,
      <<"H","C","H","C"," ","3","\n">>,
      <<"E","A","S","F","0","1"," ","4","\n">>,
      <<"X","Y","Z"," ","5","\n">>,
      <<"P","A","P","P","\n">>,
      <<"P","A","P","P"," "," ","6","\n">>,
      <<"H","C","H","P","\t","9","\n">>,
      <<"B","A","xFF","E"," ","1","\n">> }

\* names the callbacks are wired with (app.py:201-215), and a name that is none
\* of them, for direct calls of on() and off()
UnknownNames == {"UNKNOWN"}

----------------------------------------------------------------------------
(* Initial state: cli.app is entered, nothing is constructed *)

NoCallback == [pc |-> "idle", name |-> "", by |-> ""]
NoTick == [status |-> "none", model |-> <<>>, n |-> -1]

Init ==
    /\ mainPc = "L62"
    /\ mainExc = "none"
    /\ enable_linky \in BOOLEAN
    /\ lineState = "free"
    /\ level = [s \in Switches |-> 0]
    /\ phys = [s \in Switches |-> <<>>]
    /\ reqs = [s \in Switches |-> <<>>]
    /\ ann = [s \in Switches |-> <<>>]
    /\ cb = NoCallback
    /\ loop = "none"
    /\ connected = FALSE
    /\ registered = <<>>
    /\ closed = [e \in Entities |-> 0]
    /\ calls = [dispatch |-> 0, tick |-> 0, line |-> 0, close |-> 0,
                release |-> 0, loop_stop |-> 0, disconnect |-> 0,
                unknown |-> 0, raised |-> 0, ups_publish |-> 0]
    /\ ups = -1
    /\ tick = NoTick
    /\ linky = [m \in Measures |-> <<>>]
    /\ readerPc = "none"
    /\ serialOpen = FALSE
    /\ lastLine = <<>>
    /\ lastPubs = <<>>
    /\ late = {}

Count(name) == [calls EXCEPT ![name] = @ + 1]

\* one more input may be taken
Budget == calls.dispatch + calls.tick + calls.line < MaxEvents

----------------------------------------------------------------------------
(* The switch callbacks on() and off() (app.py:113-170).  A callback runs  *)
(* on the MQTT network thread; its physical write and its report to the    *)
(* entity are two steps, between which the main thread may run.            *)

\* on() with its last elif turned into the default branch
on_branch_default(name) ==
    IF name = "RELAY1" THEN "gpio"
    ELSE IF name = "LED_R" THEN "LED2_R"
    ELSE IF name = "LED_G" THEN "LED2_G"
    ELSE "LED2_B"

\* the branch of on() that a name takes: the gpio line, a led brightness
\* file, or the final else
on_branch(name) ==
    IF name = "RELAY1" THEN "gpio"
    ELSE IF name = "LED_R" THEN "LED2_R"
    ELSE IF name = "LED_G" THEN "LED2_G"
    ELSE IF name = "LED_B" THEN "LED2_B"
    ELSE "unknown"

\* the branch of off() that a name takes
off_branch(name) ==
    IF name = "RELAY1" THEN "gpio"
    ELSE IF name = "LED_R" THEN "LED2_R"
    ELSE IF name = "LED_G" THEN "LED2_G"
    ELSE IF name = "LED_B" THEN "LED2_B"
    ELSE "unknown"

\* the switch whose binding a branch writes
BindingOf(branch) ==
    CASE branch = "gpio"   -> "RELAY1"
      [] branch = "LED2_R" -> "LED_R"
      [] branch = "LED2_G" -> "LED_G"
      [] branch = "LED2_B" -> "LED_B"

\* entity.publish_state / set_on / set_off on an entity that close() was
\* already called on is recorded in late
Late(entity) == IF closed[entity] > 0 THEN late \cup {entity} ELSE late

\* the process lives while the main thread is in app or the teleinfo thread
\* (not a daemon thread) runs; the network thread is a daemon thread
Alive == mainPc # "exit" \/ readerPc \in {"L273", "L283"}

\* A command is delivered and the callback runs up to its physical write.
\* gpiod's set_value on a line that was released raises OSError: the callback
\* is left and the network thread ends with it.  calls.unknown counts the
\* dispatches whose name is none of the wired ones.
Command(name, value, branch, by) ==
    LET raises == branch = "gpio" /\ lineState # "requested"
        writes == branch # "unknown" /\ ~raises
    IN  /\ loop = "running"
        /\ Alive
        /\ cb.pc = "idle"
        /\ Budget
        /\ calls' = [calls EXCEPT
                        !.dispatch = @ + 1,
                        !.unknown = @ + (IF name \in Switches THEN 0 ELSE 1),
                        !.raised = @ + (IF raises THEN 1 ELSE 0)]
        /\ reqs' = [s \in Switches |->
                        IF branch # "unknown" /\ s = name
                        THEN Append(reqs[s], by) ELSE reqs[s]]
        /\ level' = [s \in Switches |->
                        IF writes /\ s = BindingOf(branch) THEN value ELSE level[s]]
        /\ phys' = [s \in Switches |->
                        IF writes /\ s = BindingOf(branch)
                        THEN Append(phys[s], [value |-> value, by |-> by])
                        ELSE phys[s]]
        /\ cb' = IF writes THEN [pc |-> "report", name |-> name, by |-> by] ELSE cb
        /\ loop' = IF raises THEN "crashed" ELSE loop
        /\ UNCHANGED <<mainVars, enable_linky, lineState, ann, connected,
                       registered, closed, ups, tick, readerVars, late>>

\* entity.set_on() / entity.set_off(): the entity announces its state
Report(name, by, state) ==
    /\ cb = [pc |-> "report", name |-> name, by |-> by]
    /\ Alive
    /\ ann' = [s \in Switches |-> IF s = name THEN Append(ann[s], state) ELSE ann[s]]
    /\ late' = Late(name)
    /\ cb' = NoCallback
    /\ UNCHANGED <<mainVars, enable_linky, lineState, level, phys, reqs, loop,
                   connected, registered, closed, calls, ups, tick, readerVars>>

\* on() reporting to the entity before it writes
on_report_first(name) ==
    \/ /\ loop = "running"
       /\ cb.pc = "idle"
       /\ Budget
       /\ name \in Switches
       /\ calls' = Count("dispatch")
       /\ reqs' = [reqs EXCEPT ![name] = Append(@, "on")]
       /\ ann' = [ann EXCEPT ![name] = Append(@, "ON")]
       /\ cb' = [pc |-> "write", name |-> name, by |-> "on"]
       /\ UNCHANGED <<mainVars, enable_linky, lineState, level, phys, loop,
                      connected, registered, closed, ups, tick, readerVars, late>>
    \/ /\ cb = [pc |-> "write", name |-> name, by |-> "on"]
       /\ level' = [level EXCEPT ![name] = 1]
       /\ phys' = [phys EXCEPT ![name] = Append(@, [value |-> 1, by |-> "on"])]
       /\ cb' = NoCallback
       /\ UNCHANGED <<mainVars, enable_linky, lineState, reqs, ann, loop, connected,
                      registered, closed, calls, ups, tick, readerVars, late>>

\* app.py:113-140
on(name) ==
    \/ Command(name, 1, on_branch(name), "on")
    \/ Report(name, "on", "ON")

\* off() writing the value of on()
off_writes_one(name) ==
    \/ Command(name, 1, off_branch(name), "off")
    \/ Report(name, "off", "OFF")

\* app.py:143-170
off(name) ==
    \/ Command(name, 0, off_branch(name), "off")
    \/ Report(name, "off", "OFF")

----------------------------------------------------------------------------
(* The main thread: cli.app (cli.py:54-75) and the methods it calls.       *)
(* mainPc is the line of cli.py or app.py the thread is about to execute;  *)
(* "exit" is the thread having left app.                                   *)

\* MAPIO_GPIO.__init__ (app.py:176-184): the relay line is requested as an
\* output (level 0), or the request fails and the exception leaves app
MAPIO_GPIO_init ==
    /\ mainPc = "L62"
    /\ \/ /\ lineState' = "requested"
          /\ mainPc' = "L63"
          /\ UNCHANGED mainExc
       \/ /\ mainExc' = "OSError"
          /\ mainPc' = "exit"
          /\ UNCHANGED lineState
    /\ UNCHANGED <<enable_linky, switchVars, loop, connected, registered, closed,
                   calls, ups, tick, readerVars, late>>

\* an entity: its unique id, its device_type, and the name its callback_on
\* and callback_off pass to on() and off() ("none": no callback assigned)
MqttSwitch(unique_id) ==
    [identity |-> unique_id, device_type |-> "switch", callback |-> unique_id]
MqttSensor(unique_id) ==
    [identity |-> unique_id, device_type |-> "sensor", callback |-> "none"]
MqttTicSensor(unique_id) ==
    [identity |-> unique_id, device_type |-> "sensor", callback |-> "none"]

\* the measure sensors constructed whether or not linky is enabled
ExposedEntities_always(linky_enable) ==
    << MqttSwitch("RELAY1"), MqttSwitch("LED_R"), MqttSwitch("LED_G"),
       MqttSwitch("LED_B"), MqttSensor("ups") >>
    \o [i \in DOMAIN HA_LINKY_MEASURES |->
            MqttTicSensor(HA_LINKY_MEASURES[i].exposed_variable)]

\* the entities expose_mapio_gpio_to_ha constructs (app.py:198-240)
ExposedEntities(linky_enable) ==
    << MqttSwitch("RELAY1"), MqttSwitch("LED_R"), MqttSwitch("LED_G"),
       MqttSwitch("LED_B"), MqttSensor("ups") >>
    \o (IF linky_enable
        THEN [i \in DOMAIN HA_LINKY_MEASURES |->
                 MqttTicSensor(HA_LINKY_MEASURES[i].exposed_variable)]
        ELSE <<>>)

\* expose_mapio_gpio_to_ha (app.py:186-240): connect, start the network
\* thread, construct the entities; or client.connect raises (no broker) and
\* the exception leaves app
expose_mapio_gpio_to_ha ==
    /\ mainPc = "L63"
    /\ \/ /\ connected' = TRUE
          /\ loop' = "running"
          /\ registered' = ExposedEntities(enable_linky)
          /\ mainPc' = "L65"
          /\ UNCHANGED mainExc
       \/ /\ mainExc' = "ConnectionRefusedError"
          /\ mainPc' = "exit"
          /\ UNCHANGED <<connected, loop, registered>>
    /\ UNCHANGED <<enable_linky, lineState, switchVars, closed, calls, ups, tick,
                   readerVars, late>>

\* the teleinfo thread started whether or not the marker file exists
start_thread_always ==
    /\ mainPc = "L65"
    /\ \/ /\ readerPc' = "L273"
          /\ mainPc' = "L70"
          /\ UNCHANGED mainExc
       \/ /\ mainExc' = "RuntimeError"
          /\ mainPc' = "exit"
          /\ UNCHANGED readerPc
    /\ UNCHANGED <<enable_linky, lineState, switchVars, loop, connected,
                   registered, closed, calls, ups, tick, linky, serialOpen,
                   lastLine, lastPubs, late>>

\* cli.py:65-67: the teleinfo thread is started when the marker file exists;
\* or Thread.start() raises RuntimeError (no new thread can be started) and
\* the exception leaves app
start_thread ==
    /\ mainPc = "L65"
    /\ \/ /\ readerPc' = IF enable_linky THEN "L273" ELSE readerPc
          /\ mainPc' = "L70"
          /\ UNCHANGED mainExc
       \/ /\ enable_linky
          /\ mainExc' = "RuntimeError"
          /\ mainPc' = "exit"
          /\ UNCHANGED readerPc
    /\ UNCHANGED <<enable_linky, lineState, switchVars, loop, connected,
                   registered, closed, calls, ups, tick, linky, serialOpen,
                   lastLine, lastPubs, late>>

\* one poll tick, refresh_mapio_gpio_to_ha (app.py:242-269) and the sleep of
\* cli.py:71: the percentage is published, or int() raises ValueError, which
\* no except clause of cli.py:68-75 catches: the finally clause runs close
refresh_mapio_gpio_to_ha(model, output) ==
    /\ mainPc = "L70"
    /\ Budget
    /\ LET r == sample(model, output) IN
       IF r.exc = "none"
       THEN /\ ups' = r.percent
            /\ late' = Late("ups")
            /\ tick' = [status |-> "published", model |-> model, n |-> r.n]
            /\ calls' = [calls EXCEPT !.tick = @ + 1, !.ups_publish = @ + 1]
            /\ UNCHANGED mainVars
       ELSE /\ tick' = [status |-> "error", model |-> model, n |-> -1]
            /\ mainExc' = r.exc
            /\ mainPc' = "L301"
            /\ calls' = [calls EXCEPT !.tick = @ + 1, !.close = @ + 1]
            /\ UNCHANGED <<ups, late>>
    /\ UNCHANGED <<enable_linky, lineState, switchVars, loop, connected,
                   registered, closed, readerVars>>

\* KeyboardInterrupt leaving app with no finally clause
KeyboardInterrupt_no_finally ==
    /\ mainPc = "L70"
    /\ mainPc' = "exit"
    /\ UNCHANGED <<mainExc, enable_linky, lineState, switchVars, loop, connected,
                   registered, closed, calls, ups, tick, readerVars, late>>

\* KeyboardInterrupt reaches the main thread in the poll loop (cli.py:72-75)
KeyboardInterrupt ==
    /\ mainPc = "L70"
    /\ mainPc' = "L301"
    /\ calls' = Count("close")
    /\ UNCHANGED <<mainExc, enable_linky, lineState, switchVars, loop, connected,
                   registered, closed, ups, tick, readerVars, late>>

----------------------------------------------------------------------------
(* close_mapio_gpio_to_ha (app.py:298-314), statement by statement *)

\* app.py:301  self.relay1_ctrl.set_value(0); on a released line gpiod raises
\* OSError, which leaves close
close_set_value ==
    /\ mainPc = "L301"
    /\ IF lineState = "requested"
       THEN /\ level' = [level EXCEPT !["RELAY1"] = 0]
            /\ phys' = [phys EXCEPT !["RELAY1"] =
                            Append(@, [value |-> 0, by |-> "close"])]
            /\ mainPc' = "L302"
            /\ UNCHANGED mainExc
       ELSE /\ mainExc' = "OSError"
            /\ mainPc' = "exit"
            /\ UNCHANGED <<level, phys>>
    /\ UNCHANGED <<enable_linky, lineState, reqs, ann, cb, loop, connected,
                   registered, closed, calls, ups, tick, readerVars, late>>

\* close going on without releasing the line
close_release_skipped ==
    /\ mainPc = "L302"
    /\ mainPc' = "L304"
    /\ UNCHANGED <<mainExc, enable_linky, lineState, switchVars, loop, connected,
                   registered, closed, calls, ups, tick, readerVars, late>>

\* app.py:302  self.relay1_ctrl.release()
close_release ==
    /\ mainPc = "L302"
    /\ lineState' = "released"
    /\ calls' = Count("release")
    /\ mainPc' = "L304"
    /\ UNCHANGED <<mainExc, enable_linky, switchVars, loop, connected, registered,
                   closed, ups, tick, readerVars, late>>

\* entity.close() on each of a set of entities, then on to the next statement
CloseEntities(at, entities, next) ==
    /\ mainPc = at
    /\ closed' = [e \in Entities |-> IF e \in entities THEN closed[e] + 1 ELSE closed[e]]
    /\ mainPc' = next
    /\ UNCHANGED <<mainExc, enable_linky, lineState, switchVars, loop, connected,
                   registered, calls, ups, tick, readerVars, late>>

\* the measure sensors left open
close_linky_skipped == CloseEntities("L306", {}, "L310")

\* app.py:304-312
close_relay1 == CloseEntities("L304", {"RELAY1"}, "L305")
close_ups    == CloseEntities("L305", {"ups"}, "L306")
close_linky  == CloseEntities("L306", IF enable_linky THEN Measures ELSE {}, "L310")
close_led_r  == CloseEntities("L310", {"LED_R"}, "L311")
close_led_g  == CloseEntities("L311", {"LED_G"}, "L312")
close_led_b  == CloseEntities("L312", {"LED_B"}, "L313")

\* app.py:313  self.client.loop_stop(): joins the network thread, so it
\* returns only once the callback in progress has returned
close_loop_stop ==
    /\ mainPc = "L313"
    /\ cb.pc = "idle"
    /\ loop' = "stopped"
    /\ calls' = Count("loop_stop")
    /\ mainPc' = "L314"
    /\ UNCHANGED <<mainExc, enable_linky, lineState, switchVars, connected,
                   registered, closed, ups, tick, readerVars, late>>

\* app.py:314  self.client.disconnect(), the last statement: app is left
close_disconnect ==
    /\ mainPc = "L314"
    /\ connected' = FALSE
    /\ calls' = Count("disconnect")
    /\ mainPc' = "exit"
    /\ UNCHANGED <<mainExc, enable_linky, lineState, switchVars, loop, registered,
                   closed, ups, tick, readerVars, late>>

close_mapio_gpio_to_ha ==
    \/ close_set_value
    \/ close_release
    \/ close_relay1
    \/ close_ups
    \/ close_linky
    \/ close_led_r
    \/ close_led_g
    \/ close_led_b
    \/ close_loop_stop
    \/ close_disconnect

----------------------------------------------------------------------------
(* The teleinfo thread: read_teleinfo (app.py:271-296).  KeyboardInterrupt  *)
(* is raised in the main thread only and nothing else stops this thread, so *)
(* the except clause of app.py:295-296 has no step.                         *)

\* app.py:273-279: the serial port is opened, or serial.Serial raises and the
\* thread ends
open_serial ==
    /\ readerPc = "L273"
    /\ \/ serialOpen' = TRUE /\ readerPc' = "L283"
       \/ serialOpen' = FALSE /\ readerPc' = "dead"
    /\ UNCHANGED <<mainVars, enable_linky, lineState, switchVars, loop, connected,
                   registered, closed, calls, ups, tick, linky, lastLine,
                   lastPubs, late>>

\* the values a sequence of publishes leaves on the measure sensors
RECURSIVE Published(_, _)
Published(state, pubs) ==
    IF pubs = <<>> THEN state
    ELSE Published([state EXCEPT ![pubs[1][1]] = pubs[1][2]], Tail(pubs))

\* the teleinfo thread publishing a record's value to ups as well
read_teleinfo_to_ups(raw) ==
    /\ readerPc = "L283"
    /\ Budget
    /\ LET r == handle_record(raw) IN
       /\ linky' = Published(linky, r.pubs)
       /\ ups' = IF r.pubs # <<>> THEN 0 ELSE ups
       /\ lastLine' = raw
       /\ lastPubs' = r.pubs
       /\ late' = late \cup {r.pubs[i][1] : i \in {j \in DOMAIN r.pubs :
                                                    closed[r.pubs[j][1]] > 0}}
       /\ readerPc' = IF r.exc \in {"none", "UnicodeDecodeError"}
                      THEN "L283" ELSE "dead"
    /\ calls' = Count("line")
    /\ UNCHANGED <<mainVars, enable_linky, lineState, switchVars, loop, connected,
                   registered, closed, tick, serialOpen>>

\* app.py:281-293: one record is read and handled; an exception other than
\* UnicodeDecodeError leaves both try statements and ends the thread, the
\* serial port still open
read_teleinfo(raw) ==
    /\ readerPc = "L283"
    /\ Budget
    /\ LET r == handle_record(raw) IN
       /\ linky' = Published(linky, r.pubs)
       /\ lastLine' = raw
       /\ lastPubs' = r.pubs
       /\ late' = late \cup {r.pubs[i][1] : i \in {j \in DOMAIN r.pubs :
                                                    closed[r.pubs[j][1]] > 0}}
       /\ readerPc' = IF r.exc \in {"none", "UnicodeDecodeError"}
                      THEN "L283" ELSE "dead"
    /\ calls' = Count("line")
    /\ UNCHANGED <<mainVars, enable_linky, lineState, switchVars, loop, connected,
                   registered, closed, ups, tick, serialOpen>>

----------------------------------------------------------------------------
(* The program as cli.app runs it *)

Next ==
    \/ MAPIO_GPIO_init
    \/ expose_mapio_gpio_to_ha
    \/ start_thread
    \/ \E model \in ModelOutputs, output \in ProbeOutputs :
           refresh_mapio_gpio_to_ha(model, output)
    \/ KeyboardInterrupt
    \/ close_mapio_gpio_to_ha
    \/ \E name \in Switches : on(name)
    \/ \E name \in Switches : off(name)
    \/ open_serial
    \/ \E raw \in RawRecords : read_teleinfo(raw)

Spec == Init /\ [][Next]_vars

----------------------------------------------------------------------------
(* The program under its scheduling: every thread that can take a step     *)
(* eventually takes one.  The inputs (interrupt, commands, records, poll    *)
(* ticks) are the environment's and are not forced to come, except the      *)
(* interrupt that starts the shutdown.                                      *)

MainStep ==
    \/ MAPIO_GPIO_init
    \/ expose_mapio_gpio_to_ha
    \/ start_thread
    \/ KeyboardInterrupt
    \/ close_mapio_gpio_to_ha

CallbackStep ==
    \E name \in Switches : Report(name, "on", "ON") \/ Report(name, "off", "OFF")

FairSpec ==
    Spec /\ WF_vars(MainStep) /\ WF_vars(CallbackStep) /\ WF_vars(open_serial)

----------------------------------------------------------------------------
(* The classes and functions of app.py driven directly: after app has       *)
(* returned, close_mapio_gpio_to_ha is called again on the same object, and *)
(* on() and off() are called with a name that is none of the wired ones.    *)

close_again ==
    /\ mainPc = "exit"
    /\ calls.close >= 1
    /\ calls.close < MaxClose
    /\ mainPc' = "L301"
    /\ mainExc' = "none"
    /\ calls' = Count("close")
    /\ UNCHANGED <<enable_linky, lineState, switchVars, loop, connected,
                   registered, closed, ups, tick, readerVars, late>>

NextApi ==
    \/ Next
    \/ close_again
    \/ \E name \in UnknownNames : on(name)
    \/ \E name \in UnknownNames : off(name)

SpecApi == Init /\ [][NextApi]_vars

----------------------------------------------------------------------------
(* Properties *)

\* the values of a sequence of physical writes
RECURSIVE Values(_)
Values(ws) == IF ws = <<>> THEN <<>> ELSE << ws[1].value >> \o Values(Tail(ws))

\* the physical writes the callbacks made to a switch's binding
DispatchWrites(s) == SelectSeq(phys[s], LAMBDA w : w.by # "close")

\* the level and the entity state a command asks for
LevelOf(by) == IF by = "on" THEN 1 ELSE 0
StateOf(by) == IF by = "on" THEN "ON" ELSE "OFF"

\* the dispatches to s whose physical write raised (the relay line released)
Raised(s) == IF s = "RELAY1" THEN calls.raised ELSE 0

\* a callback has written to s and has not reported yet
InProgress(s) == cb.pc = "report" /\ cb.name = s

C2_RelayOffAfterShutdown ==
    (calls.close >= 1 /\ mainPc = "exit") =>
        /\ level["RELAY1"] = 0
        /\ \A i, j \in DOMAIN phys["RELAY1"] :
               (i < j /\ phys["RELAY1"][i].by = "close") => phys["RELAY1"][j].value # 1

\* the shutdown has executed its first statement: the relay was forced off
ShutdownActed == calls.close >= 1 /\ mainPc # "L301"

\* C3: once the shutdown has begun no command is dispatched to a callback,
\* and nothing writes to the relay line after it was forced off or released.
C3_NoDispatchAfterShutdownBegan ==
    [][ShutdownActed =>
          /\ calls'.dispatch = calls.dispatch
          /\ phys'["RELAY1"] = phys["RELAY1"]]_vars

\* C4: a call of close_mapio_gpio_to_ha on a closed supervisor returns without
\* an error, having written nothing, released nothing, closed no entity and
\* disconnected nothing a second time.
C4_SecondCloseIsNoOp ==
    (calls.close >= 2 /\ mainPc = "exit") =>
        /\ mainExc = "none"
        /\ calls.release <= 1
        /\ calls.loop_stop <= 1
        /\ calls.disconnect <= 1
        /\ \A e \in Entities : closed[e] <= 1
        /\ Len(SelectSeq(phys["RELAY1"], LAMBDA w : w.by = "close")) <= 1

\* C5: a poll tick whose probe output is not hexadecimal publishes nothing,
\* leaves the battery sensor's value as it was and leaves the poll loop
\* running.
C5_FailedTickKeepsPolling ==
    [][(calls'.tick # calls.tick /\ tick'.status = "error") =>
          /\ mainPc' = "L70"
          /\ mainExc' = mainExc
          /\ ups' = ups]_vars

\* C6: no record read from the serial port ends the reader: after handling
\* any record the teleinfo thread is reading again.
C6_NoRecordEndsReader ==
    [][(calls'.line # calls.line) => readerPc' = "L283"]_vars

\* C7: when the supervisor is shut down with the teleinfo feed enabled, the
\* teleinfo thread eventually ends and its serial port is closed.
C7_ReaderEndsOnShutdown ==
    (enable_linky /\ calls.close >= 1) ~> (readerPc \in {"dead", "stopped"} /\ ~serialOpen)

\* the whitespace-separated tokens of a text
RECURSIVE Tokens(_)
Tokens(text) ==
    LET t == lstrip(text)
        n == IF \E i \in DOMAIN t : t[i] \in Whitespace
             THEN (CHOOSE i \in DOMAIN t :
                       t[i] \in Whitespace /\ \A j \in 1..(i - 1) : t[j] \notin Whitespace) - 1
             ELSE Len(t)
    IN  IF t = <<>> THEN <<>>
        ELSE << SubSeq(t, 1, n) >> \o Tokens(SubSeq(t, n + 1, Len(t)))

RegisterNames == {LINKY_REGISTERS[i].name : i \in DOMAIN LINKY_REGISTERS}

IdentityOf(name) ==
    LINKY_REGISTERS[CHOOSE i \in DOMAIN LINKY_REGISTERS : LINKY_REGISTERS[i].name = name]
        .exposed_variable

\* C8: a decoded record causes a publish only if its first token is exactly
\* a known register name, and then exactly one publish is made: of its second
\* token, to the identity that name maps to.  (A record whose first token is
\* no known name, BASEX for one, publishes nothing.)
C8_ExactNameSinglePublish ==
    (lastLine # <<>> /\ decode(lastLine)[1] /\ lastPubs # <<>>) =>
        LET toks == Tokens(decode(lastLine)[2]) IN
        /\ Len(toks) >= 2
        /\ toks[1] \in RegisterNames
        /\ lastPubs = << << IdentityOf(toks[1]), toks[2] >> >>

\* the claim of C9 as stated: the writes to a switch's binding are the levels
\* of the commands dispatched to it, and with no dispatch in progress the
\* entity's last announced state, the last command and the level agree
SwitchFollowsCommands(s) ==
    /\ Values(phys[s]) = [i \in DOMAIN reqs[s] |-> LevelOf(reqs[s][i])]
    /\ (cb.pc = "idle" /\ reqs[s] # <<>>) =>
           /\ ann[s] # <<>>
           /\ ann[s][Len(ann[s])] = StateOf(reqs[s][Len(reqs[s])])
           /\ level[s] = LevelOf(reqs[s][Len(reqs[s])])

\* C9 as stated, for every switch in every state
C9_Original == \A s \in Switches : SwitchFollowsCommands(s)

\* C9, amended: for the three led switches always, and for RELAY1 until
\* close_mapio_gpio_to_ha is called (its write of 0 to the relay line is no
\* command and is not announced), the writes to the binding are the levels of
\* the commands dispatched, in order, and with no dispatch in progress the
\* last announced state, the last command and the level agree.
C9_SwitchFollowsCommands ==
    \A s \in Switches : (s # "RELAY1" \/ calls.close = 0) => SwitchFollowsCommands(s)

\* on then off was dispatched to a switch: writes 1, 0 and the state OFF
C9_Witness ==
    \E s \in Switches :
        /\ reqs[s] = <<"on", "off">>
        /\ cb.pc = "idle"
        /\ Values(phys[s]) = <<1, 0>>
        /\ ann[s] = <<"ON", "OFF">>

\* C10: a dispatch with a name that is none of the four switches writes to
\* no binding, changes no entity's state, raises nothing and leaves the
\* callbacks able to serve the next command.
C10_UnknownNameNoEffect ==
    [][(calls'.unknown # calls.unknown) =>
          /\ UNCHANGED <<level, phys, reqs, ann, ups, linky, lineState, closed, late>>
          /\ calls'.raised = calls.raised
          /\ mainExc' = mainExc
          /\ loop' = "running"
          /\ cb' = NoCallback]_vars

\* a dispatch with an unknown name was made and the next command, to a known
\* switch, is being served: it has written (a callback in progress admits no
\* other dispatch, so the unknown one came first)
C10_Witness ==
    /\ calls.unknown = 1
    /\ calls.dispatch = 2
    /\ \E s \in Switches : InProgress(s) /\ Len(phys[s]) = 1
    /\ \A s \in Switches : ann[s] = <<>>

----------------------------------------------------------------------------
(* The main thread on its own, with every two-digit register value as the  *)
(* probe's output: no command is delivered and the teleinfo thread, once   *)
(* started, takes no step.                                                  *)

NextPoll ==
    \/ MAPIO_GPIO_init
    \/ expose_mapio_gpio_to_ha
    \/ start_thread
    \/ \E model \in ModelOutputs, output \in AllProbeOutputs :
           refresh_mapio_gpio_to_ha(model, output)
    \/ KeyboardInterrupt
    \/ close_mapio_gpio_to_ha

SpecPoll == Init /\ [][NextPoll]_vars

\* the percentage the thresholds give a voltage of hundredths / 100 volts:
\* > 4.0, > 3.75, > 3.5, > 3.25
Bucket(hundredths) ==
    IF hundredths > 400 THEN 100
    ELSE IF hundredths > 375 THEN 75
    ELSE IF hundredths > 350 THEN 50
    ELSE IF hundredths > 325 THEN 25
    ELSE 0

\* the multiplier of the chip variant the probe names
Multiplier(model) == IF strip(model) = <<"a", "0">> THEN 2 ELSE 4

\* C11: a successful poll tick with register value n publishes one value to
\* the battery sensor: the bucket of 2n/100 volts for the variant a0 and of
\* 4n/100 volts otherwise (strict thresholds); the value is one of 0, 25, 50,
\* 75, 100 and no smaller register value gives a larger one.
C11_PublishedIsBucket ==
    /\ calls.ups_publish =
           calls.tick - (IF tick.status = "error" THEN 1 ELSE 0)
    /\ tick.status = "published" =>
           /\ ups = Bucket(Multiplier(tick.model) * tick.n)
           /\ ups \in {0, 25, 50, 75, 100}
           /\ \A m \in 0..tick.n : Bucket(Multiplier(tick.model) * m) <= ups

\* a tick of the variant a0 read c8 (200, 4.0 volts, on a threshold) and
\* published 75
C11_Witness ==
    /\ tick.status = "published"
    /\ strip(tick.model) = <<"a", "0">>
    /\ tick.n = 200
    /\ ups = 75

\* C12: a received record whose first token is a known register name and
\* that has a second token leaves that second token as the value of the
\* identity the name maps to (so the most recent frame of an identity wins,
\* whichever of its aliases named it) and changes no other identity.
C12_LastFrameWins ==
    [][(calls'.line # calls.line /\ decode(lastLine')[1]) =>
          LET toks == Tokens(decode(lastLine')[2]) IN
          (Len(toks) >= 2 /\ toks[1] \in RegisterNames) =>
              linky' = [linky EXCEPT ![IdentityOf(toks[1])] = toks[2]]]_vars

\* the unique ids of the entities constructed
RegisteredIds == {registered[i].identity : i \in DOMAIN registered}

\* C13: when close_mapio_gpio_to_ha has returned, every entity constructed
\* by expose_mapio_gpio_to_ha (the four switches, ups, and the measure sensors
\* when linky is enabled) has been closed exactly once, the network loop is
\* stopped and the client disconnected; the loop is stopped only after every
\* entity was closed and the client disconnected only after the loop stopped.
C13_AllClosedThenStopped ==
    /\ (mainPc = "exit" /\ calls.close >= 1) =>
           /\ RegisteredIds = Switches \cup {"ups"}
                                  \cup (IF enable_linky THEN Measures ELSE {})
           /\ \A e \in RegisteredIds : closed[e] = 1
           /\ loop = "stopped" /\ calls.loop_stop = 1
           /\ ~connected /\ calls.disconnect = 1
    /\ calls.loop_stop >= 1 => \A e \in RegisteredIds : closed[e] = 1
    /\ calls.disconnect >= 1 => calls.loop_stop >= 1
    /\ \A e \in Entities : closed[e] <= 1

\* close has returned with linky enabled: nine entities closed
C13_Witness ==
    /\ mainPc = "exit"
    /\ calls.close = 1
    /\ enable_linky
    /\ Cardinality({e \in Entities : closed[e] = 1}) = 9
    /\ loop = "stopped"
    /\ ~connected

\* the entities are the four switches, ups and, exactly when linky is
\* enabled, one sensor per measure; no unique id occurs twice; the switches,
\* and no sensor, have callbacks, which call on() and off() with their name
ExposedAsBuilt ==
    /\ RegisteredIds = Switches \cup {"ups"}
                           \cup (IF enable_linky THEN Measures ELSE {})
    /\ \A i, j \in DOMAIN registered :
           registered[i].identity = registered[j].identity => i = j
    /\ \A i \in DOMAIN registered :
           LET e == registered[i] IN
           /\ e.device_type = (IF e.identity \in Switches THEN "switch" ELSE "sensor")
           /\ e.callback = (IF e.identity \in Switches THEN e.identity ELSE "none")

\* the claim of C14 as stated: the entities after expose_mapio_gpio_to_ha
\* are those above and a binary sensor
C14_Original ==
    loop # "none" =>
        /\ ExposedAsBuilt
        /\ \E i \in DOMAIN registered : registered[i].device_type = "binary_sensor"

\* C14, amended: once expose_mapio_gpio_to_ha has returned the entities are
\* exactly RELAY1, LED_R, LED_G, LED_B, the sensor ups and, if and only if
\* linky is enabled, one sensor per measure of HA_LINKY_MEASURES (there is no
\* binary sensor); the unique ids are pairwise distinct and exactly the
\* switches have callbacks, bound to on() and off() with their own name.
\* Before that no entity exists.
C14_ExposedEntities ==
    /\ loop # "none" => ExposedAsBuilt
    /\ loop = "none" => registered = <<>>
    /\ \A i \in DOMAIN registered : registered[i].device_type # "binary_sensor"

\* expose_mapio_gpio_to_ha has returned with linky enabled: nine entities
C14_Witness ==
    /\ loop = "running"
    /\ enable_linky
    /\ Len(registered) = 9
    /\ mainPc = "L65"

\* the main thread is past cli.py:65-67 (it is in the poll loop or in close,
\* or has left through them)
PastStart ==
    /\ mainPc \notin {"L62", "L63", "L65"}
    /\ ~(mainPc = "exit" /\ calls.close = 0)

\* C15: the teleinfo thread is started if and only if linky is enabled, and
\* only after expose_mapio_gpio_to_ha constructed the entities; every
\* identity it publishes to is one of the constructed entities; with linky
\* disabled no record is read and no measure is ever published.
C15_ReaderOnlyWhenEnabled ==
    /\ readerPc # "none" =>
           /\ enable_linky
           /\ loop # "none"
           /\ Measures \subseteq RegisteredIds
           /\ \A i \in DOMAIN LINKY_REGISTERS :
                  LINKY_REGISTERS[i].exposed_variable \in RegisteredIds
    /\ (PastStart /\ enable_linky) => readerPc # "none"
    /\ \A i \in DOMAIN lastPubs : lastPubs[i][1] \in RegisteredIds
    /\ \A m \in Measures : linky[m] # <<>> => m \in RegisteredIds
    /\ ~enable_linky =>
           /\ calls.line = 0
           /\ lastPubs = <<>>
           /\ \A m \in Measures : linky[m] = <<>>

\* the teleinfo thread, started with linky enabled, has published a record's
\* value to a constructed measure sensor
C15_Witness ==
    /\ enable_linky
    /\ readerPc = "L283"
    /\ lastPubs # <<>>
    /\ lastPubs[1][1] \in RegisteredIds
    /\ linky[lastPubs[1][1]] = lastPubs[1][2]

\* C16: once close() has been called on an entity, no poll sample and no
\* record's value is published to it.
C16_NoPublishAfterClose ==
    late \cap (Measures \cup {"ups"}) = {}

\* C17: each entity has one writer: a switch's state is announced only by a
\* step of a callback of the network thread, ups is published only by a poll
\* tick of the main thread, a measure only by a record step of the teleinfo
\* thread; a poll tick changes no measure and no switch state, a record step
\* changes neither ups nor a switch state.
C17_OneWriterPerEntity ==
    [][/\ ann' # ann =>
              /\ cb.pc = "report" /\ cb'.pc = "idle"
              /\ calls'.tick = calls.tick /\ calls'.line = calls.line
       /\ (ups' # ups \/ calls'.ups_publish # calls.ups_publish) =>
              /\ mainPc = "L70" /\ calls'.tick = calls.tick + 1
              /\ calls'.line = calls.line
              /\ ann' = ann /\ linky' = linky /\ lastPubs' = lastPubs
       /\ (linky' # linky \/ lastPubs' # lastPubs) =>
              /\ readerPc = "L283" /\ calls'.line = calls.line + 1
              /\ calls'.tick = calls.tick
              /\ ann' = ann /\ ups' = ups
              /\ calls'.ups_publish = calls.ups_publish]_vars

\* the poll loop has published to ups and the teleinfo thread to a measure;
\* no switch has announced anything
C17_Witness ==
    /\ calls.ups_publish = 1
    /\ ups \in {0, 25, 50, 75, 100}
    /\ calls.line = 1
    /\ lastPubs # <<>>
    /\ linky[lastPubs[1][1]] # <<>>
    /\ \A s \in Switches : ann[s] = <<>>

\* the claim of C18 as stated: whenever app is left with the relay line
\* having been acquired, release() has been called exactly once
C18_Original ==
    (mainPc = "exit" /\ lineState # "free") =>
        (calls.release = 1 /\ lineState = "released")

\* C18, amended: release() is called at most once, and only on the line while
\* it is held; when app is left through the poll loop (KeyboardInterrupt or an
\* exception of a poll tick) it has been called exactly once.  When app is
\* left by an exception of expose_mapio_gpio_to_ha or of Thread.start(),
\* before the poll loop, release() is not called: the line is held until the
\* process ends.
C18_ReleaseOncePerAcquire ==
    /\ [](/\ calls.release <= 1
          /\ calls.release = 1 <=> lineState = "released"
          /\ (mainPc = "exit" /\ calls.close >= 1) => calls.release = 1
          /\ (mainPc = "exit" /\ calls.close = 0) => calls.release = 0)
    /\ [][calls'.release # calls.release =>
              /\ lineState = "requested"
              /\ lineState' = "released"
              /\ calls'.release = calls.release + 1]_vars

\* app was left through the poll loop after a failed poll tick, the line
\* released by the one call of release()
C18_Witness ==
    /\ mainPc = "exit"
    /\ mainExc = "ValueError"
    /\ calls.close = 1
    /\ calls.release = 1
    /\ lineState = "released"

\* the writes of close_mapio_gpio_to_ha to the relay line
CloseWrites ==
    {i \in DOMAIN phys["RELAY1"] : phys["RELAY1"][i].by = "close"}

\* C19: the poll loop is left only into close_mapio_gpio_to_ha, on
\* KeyboardInterrupt and on an exception of a poll tick alike; when app has
\* been left after the poll loop was entered, close_mapio_gpio_to_ha has been
\* called exactly once and has written 0 to the relay line exactly once.
C19_CloseOnEveryLoopExit ==
    /\ [](/\ calls.close <= 1
          /\ (mainPc = "exit" /\ mainExc \in {"none", "ValueError"}) =>
                 /\ calls.close = 1
                 /\ Cardinality(CloseWrites) = 1
                 /\ \A i \in CloseWrites : phys["RELAY1"][i].value = 0)
    /\ [][(mainPc = "L70" /\ mainPc' # "L70") =>
              /\ mainPc' = "L301"
              /\ calls'.close = calls.close + 1]_vars

\* the relay was switched on, KeyboardInterrupt ended the poll loop, and app
\* was left after close wrote 0 to the relay line
C19_Witness ==
    /\ mainPc = "exit"
    /\ mainExc = "none"
    /\ calls.close = 1
    /\ Values(phys["RELAY1"]) = <<1, 0>>
    /\ CloseWrites = {2}

====
